---- MODULE Spec2Model ----
(***************************************************************************)
(* MicexISSClient (iss_client.py): one fan-out operation of the client    *)
(* (get_available_bonds, get_securities_history, get_bonds_bondization),   *)
(* its asyncio.TaskGroup of _get_data branches, the requests each branch   *)
(* has in flight, the sequential merge and the delivery to the handler.    *)
(***************************************************************************)
EXTENDS Integers, Sequences, FiniteSets, TLC

\* ------------------------------------------------------------ bounds
MaxIds == 2      \* identifiers passed to one fan-out operation
MaxRows == 1     \* rows per block and page sent by the unconstrained server
MaxReq == 2      \* requests of one operation answered by the unconstrained server
MaxN == 3        \* rows held by the row-serving server
MaxP == 2        \* page size of the row-serving server
MaxCols == 2     \* columns of the block given to the normaliser
MaxBlockRows == 2 \* rows of the block given to the normaliser
MaxSec == 2      \* securities rows handed to the filter
MaxMd == 1       \* marketdata rows handed to the filter
MaxHist == 1     \* history rows handed to the filter

\* ------------------------------------------------------------ vocabulary
Ops == {"bonds", "sec_history", "sec_bondization"}

SecidPool == <<"A", "B", "C", "D">>
BoardgroupPool == <<"7", "193", "207", "105">>

\* Blocks: the fields of the pydantic model, in declaration order
BlockFields == <<"marketdata", "marketdata_yields", "securities", "history", "coupons">>

\* block names the unconstrained server puts in a response; "dataversion" is
\* a top-level key that is not a field of Blocks
ServedNames == {"securities", "history"}
ExtraName == "dataversion"

ServedColumns == <<"secid", "numtrades">>

\* the 'iss.only' parameter the caller passes to each operation
IssOnly(o) ==
  CASE o = "bonds" -> "securities,marketdata"
    [] o = "sec_history" -> "history"
    [] OTHER -> "coupons"

\* the boards main fetches the history of, one operation each
Boards == <<"TQOB", "TQCB">>

\* a block without columns and rows
NoBlock == [columns |-> <<>>, data |-> <<>>]

NoStart == "unset"
NoLimit == "unset"

EmptyDataset == [b \in {} |-> <<>>]

\* no TaskGroup of history operations
NoGroup == [before |-> EmptyDataset, pc |-> <<>>, data |-> <<>>]

Range(s) == {s[k] : k \in DOMAIN s}

Min(a, b) == IF a < b THEN a ELSE b

\* ------------------------------------------------------------ pure helpers

\* str(start): the decimal digits of a natural number
Digits == <<"0", "1", "2", "3", "4", "5", "6", "7", "8", "9">>

RECURSIVE Str(_)
Str(n) == IF n < 10 THEN Digits[n + 1] ELSE Str(n \div 10) \o Digits[(n % 10) + 1]

\* title.upper() on the column names that occur
Upper(title) ==
  CASE title = "secid" -> "SECID"
    [] title = "numtrades" -> "NUMTRADES"
    [] OTHER -> title

\* the model without its validator: the columns as they came
BlockItemsRaw(raw) == [columns |-> raw.columns, data |-> raw.data]

\* BlockItems: columns are upper-cased by the validator, data is kept
BlockItems(raw) ==
  [columns |-> [k \in DOMAIN raw.columns |-> Upper(raw.columns[k])],
   data |-> raw.data]

\* Blocks(**json).model_dump(exclude_none=True): only the declared fields
\* that are present are kept
BlocksDump(body) ==
  [b \in (DOMAIN body) \cap Range(BlockFields) |-> BlockItems(body[b])]

\* response.keys() iterates in field order; the last key iterated
LastBlock(blocks) ==
  LET idx(b) == CHOOSE k \in DOMAIN BlockFields : BlockFields[k] = b
  IN CHOOSE b \in DOMAIN blocks : \A c \in DOMAIN blocks : idx(c) <= idx(b)

\* flatten_response: one record per row, column -> value at the same index
FlattenResponse(blocks, blockname) ==
  LET columns == blocks[blockname].columns
      rows == blocks[blockname].data
      Item(item) ==
        [c \in Range(columns) |->
           item[CHOOSE k \in DOMAIN columns :
                  /\ columns[k] = c
                  /\ \A m \in DOMAIN columns : columns[m] = c => m <= k]]
  IN IF Len(columns) > 0 /\ Len(rows) > 0
     THEN [k \in DOMAIN rows |-> Item(rows[k])]
     ELSE <<>>

\* every block of a response, normalised
FlattenAll(blocks) == [b \in DOMAIN blocks |-> FlattenResponse(blocks, b)]

\* dict.get(blockname, [])
Get(d, blockname) == IF blockname \in DOMAIN d THEN d[blockname] ELSE <<>>

\* the merge that skips the source rows the target already holds
MergeDataDedup(target, source) ==
  [b \in (DOMAIN target) \cup (DOMAIN source) |->
     IF b \in DOMAIN source
     THEN Get(target, b) \o SelectSeq(source[b], LAMBDA r : r \notin Range(Get(target, b)))
     ELSE target[b]]

\* the merge with the operands of + exchanged
MergeDataPrepend(target, source) ==
  [b \in (DOMAIN target) \cup (DOMAIN source) |->
     IF b \in DOMAIN source THEN source[b] \o Get(target, b) ELSE target[b]]

\* _merge_data on Datasets (every value a list): target[b] = target.get(b, []) + source[b]
MergeData(target, source) ==
  [b \in (DOMAIN target) \cup (DOMAIN source) |->
     IF b \in DOMAIN source THEN Get(target, b) \o source[b] ELSE target[b]]

\* the cursor moved one past the records received
AdvanceSkip(start_, count_) == start_ + count_ + 1

\* start += count
Advance(start_, count_) == start_ + count_

\* the marker compared with another spelling
IsUnlimitedTypo(params) == params.limit = "nolimit"

\* limit == 'unlimited'
IsUnlimited(params) == params.limit = "unlimited"

\* the default board group applied by every operation
EffectiveIdsDefault(o, given) ==
  IF given = <<>> THEN <<"58">> ELSE given

\* boardgroups = (58,) if not boardgroups else boardgroups; secids are used as given
EffectiveIds(o, given) ==
  IF o = "bonds" /\ given = <<>> THEN <<"58">> ELSE given

\* params['limit'] = 'unlimited' in get_available_bonds; **params otherwise
EffectiveLimit(o, given) == IF o = "bonds" THEN "unlimited" ELSE given

\* BASE_URL.format(method=METHODS[...].format(...)): the method and the identifier
Url(o, ident) == <<o, ident>>

\* _send_request: the block set returned, or the exception that leaves it.
\* response.json() raises ContentTypeError for another content type, which is
\* caught, and JSONDecodeError for a body that is not JSON; session.get raises
\* ClientConnectionError when the connection fails
SendRequestResult(resp) ==
  CASE resp.kind = "json" -> [raised |-> "none", blocks |-> BlocksDump(resp.body)]
    [] resp.kind = "wrongtype" -> [raised |-> "none", blocks |-> EmptyDataset]
    [] resp.kind = "badbody" -> [raised |-> "JSONDecodeError", blocks |-> EmptyDataset]
    [] OTHER -> [raised |-> "ClientConnectionError", blocks |-> EmptyDataset]


\* ------------------------------------------------------------ the handler

\* _filter_data: the defaults of the criteria
PriceMax == 101
DurationMax == 365
TradesMin == 300
Faceunits == {"SUR"}

\* get_index_by_secid: the position (from 1) of the first row with the SECID,
\* 0 for the None returned when there is none
GetIndexBySecid(secid, rows) ==
  LET hits == {k \in DOMAIN rows : "SECID" \in DOMAIN rows[k] /\ rows[k]["SECID"] = secid}
  IN IF hits = {} THEN 0 ELSE CHOOSE k \in hits : \A m \in hits : k <= m

\* "if index:" on the index (from 0) of that position: None and 0 are falsy
IndexTruthy(pos) == pos # 0 /\ pos - 1 # 0

\* index = get_index_by_secid(secid, securities_rows); if index: del securities_rows[index]
DeleteBySecid(secid, rows) ==
  LET pos == GetIndexBySecid(secid, rows)
  IN IF IndexTruthy(pos)
     THEN SubSeq(rows, 1, pos - 1) \o SubSeq(rows, pos + 1, Len(rows))
     ELSE rows

\* securities_filter: a price is there, the face unit is listed and the price
\* is at most price_max
SecuritiesFilter(row) ==
  /\ "PREVLEGALCLOSEPRICE" \in DOMAIN row
  /\ row["PREVLEGALCLOSEPRICE"] # 0
  /\ row["FACEUNIT"] \in Faceunits
  /\ row["PREVLEGALCLOSEPRICE"] <= PriceMax

\* the loop over marketdata_rows from row k on: a row without a DURATION, or
\* with one above duration_max, deletes the securities row of its SECID
RECURSIVE FilterByMarketdata(_, _, _)
FilterByMarketdata(marketdata_rows, k, rows) ==
  IF k > Len(marketdata_rows) THEN rows
  ELSE LET row == marketdata_rows[k]
           hit == IF "DURATION" \in DOMAIN row /\ row["DURATION"] # 0
                  THEN 0 < row["DURATION"] /\ row["DURATION"] > DurationMax
                  ELSE TRUE
       IN FilterByMarketdata(marketdata_rows, k + 1,
            IF hit THEN DeleteBySecid(row["SECID"], rows) ELSE rows)

\* _aggregate_data on the first k items: the values of values_key grouped by
\* group_key, the groups in order of first occurrence
RECURSIVE AggregateData(_, _, _, _)
AggregateData(array, group_key, values_key, k) ==
  IF k = 0 THEN <<>>
  ELSE LET acc == AggregateData(array, group_key, values_key, k - 1)
           item == array[k]
           at == {j \in DOMAIN acc : acc[j].key = item[group_key]}
       IN IF at = {}
          THEN Append(acc, [key |-> item[group_key], values |-> <<item[values_key]>>])
          ELSE [acc EXCEPT ![CHOOSE j \in at : TRUE].values = Append(@, item[values_key])]

\* for daytrades in numtrades, from day k on: a day below trades_min deletes
\* the securities row of the SECID
RECURSIVE FilterByDays(_, _, _, _)
FilterByDays(secid, numtrades, k, rows) ==
  IF k > Len(numtrades) THEN rows
  ELSE FilterByDays(secid, numtrades, k + 1,
         IF numtrades[k] < TradesMin THEN DeleteBySecid(secid, rows) ELSE rows)

\* for secid, numtrades in aggregated_history.items(), from group j on
RECURSIVE FilterByHistory(_, _, _)
FilterByHistory(aggregated, j, rows) ==
  IF j > Len(aggregated) THEN rows
  ELSE FilterByHistory(aggregated, j + 1,
         FilterByDays(aggregated[j].key, aggregated[j].values, 1, rows))

\* _filter_data: securities, marketdata and history are popped; with a
\* non-empty securities block the filtered rows are put back
FilterData(d) ==
  LET securities_rows == Get(d, "securities")
      marketdata_rows == Get(d, "marketdata")
      history_rows == Get(d, "history")
      rest == [b \in (DOMAIN d) \ {"securities", "marketdata", "history"} |-> d[b]]
      priced == SelectSeq(securities_rows, SecuritiesFilter)
      timed == IF marketdata_rows # <<>>
               THEN FilterByMarketdata(marketdata_rows, 1, priced)
               ELSE priced
      traded == IF history_rows # <<>>
                THEN FilterByHistory(
                       AggregateData(history_rows, "SECID", "NUMTRADES", Len(history_rows)),
                       1, timed)
                ELSE timed
  IN IF securities_rows # <<>>
     THEN [b \in (DOMAIN rest) \cup {"securities"} |->
             IF b = "securities" THEN traded ELSE rest[b]]
     ELSE rest

\* add_data: every block handed over is appended to the container's block,
\* and the container keeps the filtered result
HandlerAddData(cont, market_data) ==
  FilterData([b \in (DOMAIN cont) \cup (DOMAIN market_data) |->
                IF b \in DOMAIN market_data
                THEN Get(cont, b) \o market_data[b]
                ELSE cont[b]])

\* ------------------------------------------------------------ state
VARIABLES
  op,        \* the fan-out operation called
  ids,       \* the identifiers given by the caller (*boardgroups, *secids)
  limitArg,  \* the caller's params.get('limit')
  srv,       \* the remote server: its mode, and the table it serves in mode "rows"
  opc,       \* position of the operation's coroutine
  tasks,     \* tasks: the identifier of each branch, in creation order
  bpc,       \* position of each branch's _get_data coroutine
  start,     \* _get_data: start, per branch
  count,     \* _get_data: count, per branch
  bdata,     \* _get_data: data, per branch
  bparams,   \* _get_data: params, per branch
  reqlog,    \* per branch, the params of every request issued, in order
  pages,     \* per branch, the normalised block set of every response returned by _send_request
  berr,      \* per branch, the exception its _get_data ended with
  net,       \* requests in flight in the session
  data,      \* the operation's data (merge target)
  mergeIdx,  \* position of "for task in tasks" in the merge loop
  handed,    \* the arguments of every handler.add_data call, in order
  firstDone, \* the branch whose task finished first, 0 when none has
  result,    \* what the operation gave its caller
  container, \* MyData._data, the handler's container ({} for None)
  hgroup     \* main's TaskGroup of get_securities_history operations: the container
             \* before it, each operation's position and the Dataset it fetches

vars == <<op, ids, limitArg, srv, opc, tasks, bpc, start, count, bdata, bparams,
          reqlog, pages, berr, net, data, mergeIdx, handed, firstDone, result,
          container, hgroup>>

branchVars == <<bpc, start, count, bdata, bparams, reqlog, pages, berr, net, firstDone>>
callVars == <<op, ids, limitArg, srv, hgroup>>

Branches == DOMAIN tasks

Finished(i) == bpc[i] \in {"done", "failed", "cancelled"}

\* ------------------------------------------------------------ the remote server

\* int(start) on the server side
ParseNat(str_) == CHOOSE n \in 0..(MaxN + MaxP + MaxReq * (MaxRows + 1)) : Str(n) = str_

\* rows a..b of the table the row-serving server holds for one identifier
TableRows(ident, a, b) == [k \in 1..(b - a + 1) |-> <<ident, a + k - 1>>]

\* the row-serving server: the rows from position start onward, at most P of them;
\* all of them when limit=unlimited
RowsBody(req) ==
  LET s == IF req.params.start = NoStart THEN 0 ELSE ParseNat(req.params.start)
      last == IF req.params.limit = "unlimited" THEN srv.N ELSE Min(s + srv.P, srv.N)
  IN [b \in {"history"} |->
        [columns |-> ServedColumns, data |-> TableRows(req.url[2], s + 1, last)]]

\* the unconstrained server: any subset of the served blocks, any number of
\* rows in each, beside a key Blocks does not declare
AnyBodies(req) ==
  UNION {
    { [b \in S \cup {ExtraName} |->
         [columns |-> ServedColumns,
          data |-> IF b \in S
                   THEN [j \in 1..cnt[b] |-> <<req.url[2], req.seq * 10 + j>>]
                   ELSE <<>>]]
      : cnt \in [S -> 0..MaxRows] }
    : S \in SUBSET ServedNames }

\* what can come back for a request: a JSON body, a response of another
\* content type, a body that is not JSON, or a failed connection; the
\* unconstrained server answers MaxReq requests of an operation and leaves
\* the others unanswered
RECURSIVE AnsweredUpTo(_)
AnsweredUpTo(n) ==
  IF n = 0 THEN 0
  ELSE AnsweredUpTo(n - 1) + Len(pages[n]) + (IF bpc[n] = "failed" THEN 1 ELSE 0)

Responses(req) ==
  IF srv.mode = "rows"
  THEN {[kind |-> "json", body |-> RowsBody(req)]}
  ELSE IF srv.mode = "block"
  THEN {[kind |-> "json", body |-> [b \in {"history"} |-> srv.block]]}
  ELSE IF AnsweredUpTo(Len(tasks)) >= MaxReq THEN {}
  ELSE {[kind |-> "json", body |-> x] : x \in AnyBodies(req)}
       \cup {[kind |-> k, body |-> EmptyDataset] : k \in {"wrongtype", "badbody", "neterr"}}

\* ------------------------------------------------------------ initial state
Init ==
  /\ op \in Ops
  /\ \E n \in 0..MaxIds :
       ids = SubSeq(IF op = "bonds" THEN BoardgroupPool ELSE SecidPool, 1, n)
  /\ limitArg \in {NoLimit, "unlimited"}
  /\ srv \in [mode : {"rows"}, N : 0..MaxN, P : 1..MaxP, block : {NoBlock}]
             \cup {[mode |-> "any", N |-> 0, P |-> 1, block |-> NoBlock]}
  /\ opc = "call"
  /\ tasks = <<>>
  /\ bpc = <<>>
  /\ start = <<>>
  /\ count = <<>>
  /\ bdata = <<>>
  /\ bparams = <<>>
  /\ reqlog = <<>>
  /\ pages = <<>>
  /\ berr = <<>>
  /\ net = {}
  /\ data = EmptyDataset
  /\ mergeIdx = 1
  /\ handed = <<>>
  /\ firstDone = 0
  /\ result = "pending"
  /\ container = EmptyDataset
  /\ hgroup = NoGroup


\* ------------------------------------------------------------ the operation

\* the request built from the cursor alone, the caller's parameters left out
RequestStartOnly(i, params) ==
  [task |-> i, seq |-> Len(reqlog[i]) + 1, url |-> Url(op, tasks[i]),
   params |-> [limit |-> params.limit, start |-> params.start, only |-> "unset"]]

\* the request a branch issues: session.get(url=url, params={**params})
Request(i, params) ==
  [task |-> i, seq |-> Len(reqlog[i]) + 1, url |-> Url(op, tasks[i]), params |-> params]

\* the block left as soon as one task has finished
JoinedAny == \E i \in Branches : Finished(i)

\* async with asyncio.TaskGroup(): the block is left when every task has finished
Joined == \A i \in Branches : Finished(i)

\* get_available_bonds / get_securities_history / get_bonds_bondization up to
\* the creation of the tasks: one _get_data(url, **params) per identifier, each
\* with its own params; no task at all when "if secids:" is false
Call ==
  /\ opc = "call"
  /\ LET eff == EffectiveIds(op, ids)
         lim == EffectiveLimit(op, limitArg)
     IN IF eff # <<>>
        THEN /\ tasks' = eff
             /\ bpc' = [i \in DOMAIN eff |-> "created"]
             /\ start' = [i \in DOMAIN eff |-> 0]
             /\ count' = [i \in DOMAIN eff |-> 0]
             /\ bdata' = [i \in DOMAIN eff |-> EmptyDataset]
             /\ bparams' = [i \in DOMAIN eff |-> [limit |-> lim, start |-> NoStart, only |-> IssOnly(op)]]
             /\ reqlog' = [i \in DOMAIN eff |-> <<>>]
             /\ pages' = [i \in DOMAIN eff |-> <<>>]
             /\ berr' = [i \in DOMAIN eff |-> "none"]
             /\ opc' = "group"
        ELSE /\ opc' = "deliver"
             /\ UNCHANGED <<tasks, bpc, start, count, bdata, bparams, reqlog, pages, berr>>
  /\ data' = EmptyDataset
  /\ UNCHANGED <<callVars, container, net, mergeIdx, handed, firstDone, result>>

\* the same step taken only when every branch created before has finished:
\* the branches awaited one after another
GetDataBeginInTurn(i) ==
  /\ opc = "group"
  /\ bpc[i] = "created"
  /\ \A j \in 1..(i - 1) : Finished(j)
  /\ IF IsUnlimited(bparams[i])
     THEN UNCHANGED <<start, count, bparams>>
     ELSE /\ start' = [start EXCEPT ![i] = 0]
          /\ count' = [count EXCEPT ![i] = 1]
          /\ bparams' = [bparams EXCEPT ![i].start = Str(0)]
  /\ net' = net \cup {Request(i, bparams'[i])}
  /\ reqlog' = [reqlog EXCEPT ![i] = Append(@, bparams'[i])]
  /\ bpc' = [bpc EXCEPT ![i] = "await"]
  /\ UNCHANGED <<callVars, container, opc, tasks, bdata, pages, berr, data, mergeIdx,
                 handed, firstDone, result>>


\* the same step with the request not awaited: the coroutine goes on from
\* where it was
GetDataBeginNoAwait(i) ==
  /\ opc = "group"
  /\ bpc[i] = "created"
  /\ IF IsUnlimited(bparams[i])
     THEN UNCHANGED <<start, count, bparams>>
     ELSE /\ start' = [start EXCEPT ![i] = 0]
          /\ count' = [count EXCEPT ![i] = 1]
          /\ bparams' = [bparams EXCEPT ![i].start = Str(0)]
  /\ net' = net \cup {Request(i, bparams'[i])}
  /\ reqlog' = [reqlog EXCEPT ![i] = Append(@, bparams'[i])]
  /\ UNCHANGED <<callVars, container, opc, tasks, bpc, bdata, pages, berr, data, mergeIdx,
                 handed, firstDone, result>>

\* _get_data from its first line to its first await. Unlimited mode: the one
\* request is issued with params as given. Otherwise start = 0, count = 1, the
\* loop is entered, params['start'] = str(start) and the first page is requested
GetDataBegin(i) ==
  /\ opc = "group"
  /\ bpc[i] = "created"
  /\ IF IsUnlimited(bparams[i])
     THEN UNCHANGED <<start, count, bparams>>
     ELSE /\ start' = [start EXCEPT ![i] = 0]
          /\ count' = [count EXCEPT ![i] = 1]
          /\ bparams' = [bparams EXCEPT ![i].start = Str(0)]
  /\ net' = net \cup {Request(i, bparams'[i])}
  /\ reqlog' = [reqlog EXCEPT ![i] = Append(@, bparams'[i])]
  /\ bpc' = [bpc EXCEPT ![i] = "await"]
  /\ UNCHANGED <<callVars, container, opc, tasks, bdata, pages, berr, data, mergeIdx,
                 handed, firstDone, result>>

\* count taken from the block of the page with the most records
PageCountMost(i, blocks) ==
  IF DOMAIN blocks = {} THEN count[i]
  ELSE LET lens == {Len(FlattenResponse(blocks, b)) : b \in DOMAIN blocks}
       IN CHOOSE n \in lens : \A m \in lens : m <= n

\* the body of the pagination loop after the await: count is assigned once
\* per block of the response, so it keeps its value when there is none
PageCount(i, blocks) ==
  IF DOMAIN blocks = {} THEN count[i] ELSE Len(FlattenResponse(blocks, LastBlock(blocks)))

\* the blocks of the page put in place of the blocks accumulated
PageDataReplace(i, blocks) ==
  [b \in (DOMAIN bdata[i]) \cup (DOMAIN blocks) |->
     IF b \in DOMAIN blocks THEN FlattenResponse(blocks, b) ELSE bdata[i][b]]

\* data[blockname] = data.get(blockname, []) + block_data, for every block
PageData(i, blocks) ==
  [b \in (DOMAIN bdata[i]) \cup (DOMAIN blocks) |->
     IF b \in DOMAIN blocks
     THEN Get(bdata[i], b) \o FlattenResponse(blocks, b)
     ELSE bdata[i][b]]

\* the unlimited branch after the await: data[blockname] = block_data
WholeData(i, blocks) ==
  [b \in (DOMAIN bdata[i]) \cup (DOMAIN blocks) |->
     IF b \in DOMAIN blocks THEN FlattenResponse(blocks, b) ELSE bdata[i][b]]

\* the task that finished first
NoteDone(i) == IF firstDone = 0 THEN i ELSE firstDone

\* the same step with one cursor kept for all the branches of the client
ReceivePageOneCursor(i) ==
  /\ opc = "group"
  /\ bpc[i] = "await"
  /\ ~IsUnlimited(bparams[i])
  /\ \E req \in {q \in net : q.task = i} : \E resp \in Responses(req) :
       LET r == SendRequestResult(resp)
           cnt == PageCount(i, r.blocks)
           nxt == Advance(start[i], cnt)
       IN
       /\ r.raised = "none"
       /\ pages' = [pages EXCEPT ![i] = Append(@, FlattenAll(r.blocks))]
       /\ bdata' = [bdata EXCEPT ![i] = PageData(i, r.blocks)]
       /\ count' = [count EXCEPT ![i] = cnt]
       /\ start' = [j \in Branches |-> nxt]
       /\ IF cnt > 0
          THEN /\ bparams' = [bparams EXCEPT ![i].start = Str(nxt)]
               /\ net' = (net \ {req}) \cup {Request(i, bparams'[i])}
               /\ reqlog' = [reqlog EXCEPT ![i] = Append(@, bparams'[i])]
               /\ UNCHANGED <<bpc, firstDone>>
          ELSE /\ net' = net \ {req}
               /\ bpc' = [bpc EXCEPT ![i] = "done"]
               /\ firstDone' = NoteDone(i)
               /\ UNCHANGED <<bparams, reqlog>>
  /\ UNCHANGED <<callVars, container, opc, tasks, berr, data, mergeIdx, handed, result>>

\* a response arrives and _send_request returns its block set to the
\* pagination loop, which runs to its next await: the blocks are appended,
\* start += count, and either the next page is requested or data is returned
ReceivePage(i) ==
  /\ opc = "group"
  /\ bpc[i] = "await"
  /\ ~IsUnlimited(bparams[i])
  /\ \E req \in {q \in net : q.task = i} : \E resp \in Responses(req) :
       LET r == SendRequestResult(resp)
           cnt == PageCount(i, r.blocks)
           nxt == Advance(start[i], cnt)
       IN
       /\ r.raised = "none"
       /\ pages' = [pages EXCEPT ![i] = Append(@, FlattenAll(r.blocks))]
       /\ bdata' = [bdata EXCEPT ![i] = PageData(i, r.blocks)]
       /\ count' = [count EXCEPT ![i] = cnt]
       /\ start' = [start EXCEPT ![i] = nxt]
       /\ IF cnt > 0
          THEN /\ bparams' = [bparams EXCEPT ![i].start = Str(nxt)]
               /\ net' = (net \ {req}) \cup {Request(i, bparams'[i])}
               /\ reqlog' = [reqlog EXCEPT ![i] = Append(@, bparams'[i])]
               /\ UNCHANGED <<bpc, firstDone>>
          ELSE /\ net' = net \ {req}
               /\ bpc' = [bpc EXCEPT ![i] = "done"]
               /\ firstDone' = NoteDone(i)
               /\ UNCHANGED <<bparams, reqlog>>
  /\ UNCHANGED <<callVars, container, opc, tasks, berr, data, mergeIdx, handed, result>>

\* a response arrives and _send_request returns its block set to the
\* unlimited branch, which normalises it and returns data
ReceiveWhole(i) ==
  /\ opc = "group"
  /\ bpc[i] = "await"
  /\ IsUnlimited(bparams[i])
  /\ \E req \in {q \in net : q.task = i} : \E resp \in Responses(req) :
       LET r == SendRequestResult(resp) IN
       /\ r.raised = "none"
       /\ net' = net \ {req}
       /\ pages' = [pages EXCEPT ![i] = Append(@, FlattenAll(r.blocks))]
       /\ bdata' = [bdata EXCEPT ![i] = WholeData(i, r.blocks)]
  /\ bpc' = [bpc EXCEPT ![i] = "done"]
  /\ firstDone' = NoteDone(i)
  /\ UNCHANGED <<callVars, container, opc, tasks, start, count, bparams, reqlog, berr, data,
                 mergeIdx, handed, result>>

\* the request fails with an exception _send_request does not catch: it
\* leaves _get_data and the task ends with it
ReceiveError(i) ==
  /\ opc = "group"
  /\ bpc[i] = "await"
  /\ \E req \in {q \in net : q.task = i} : \E resp \in Responses(req) :
       /\ SendRequestResult(resp).raised # "none"
       /\ net' = net \ {req}
       /\ berr' = [berr EXCEPT ![i] = SendRequestResult(resp).raised]
  /\ bpc' = [bpc EXCEPT ![i] = "failed"]
  /\ firstDone' = NoteDone(i)
  /\ UNCHANGED <<callVars, container, opc, tasks, start, count, bdata, bparams, reqlog, pages,
                 data, mergeIdx, handed, result>>

\* TaskGroup: the first task to end with an exception makes the group cancel
\* every task still running; their requests are dropped
Abort ==
  /\ opc = "group"
  /\ \E i \in Branches : bpc[i] = "failed"
  /\ \E j \in Branches : ~Finished(j)
  /\ bpc' = [j \in Branches |-> IF Finished(j) THEN bpc[j] ELSE "cancelled"]
  /\ net' = {}
  /\ UNCHANGED <<callVars, container, opc, tasks, start, count, bdata, bparams, reqlog, pages,
                 berr, data, mergeIdx, handed, firstDone, result>>

\* the block left normally although a task failed, as when the exceptions of
\* the tasks are collected instead of raised
JoinOkLenient ==
  /\ opc = "group"
  /\ Joined
  /\ opc' = "merge"
  /\ mergeIdx' = 1
  /\ UNCHANGED <<callVars, container, tasks, branchVars, data, handed, result>>

\* the TaskGroup block is left normally: the merge loop starts
JoinOk ==
  /\ opc = "group"
  /\ Joined
  /\ \A i \in Branches : bpc[i] \notin {"failed", "cancelled"}
  /\ opc' = "merge"
  /\ mergeIdx' = 1
  /\ UNCHANGED <<callVars, container, tasks, branchVars, data, handed, result>>

\* the TaskGroup block is left with the ExceptionGroup of the failed tasks,
\* which leaves the operation
JoinRaise ==
  /\ opc = "group"
  /\ Joined
  /\ \E i \in Branches : bpc[i] = "failed"
  /\ opc' = "raised"
  /\ result' = "ExceptionGroup"
  /\ UNCHANGED <<callVars, container, tasks, branchVars, data, mergeIdx, handed>>

\* for task in tasks: self._merge_data(data, task.result())
MergeStep ==
  /\ opc = "merge"
  /\ mergeIdx <= Len(tasks)
  /\ data' = MergeData(data, bdata[mergeIdx])
  /\ mergeIdx' = mergeIdx + 1
  /\ opc' = IF mergeIdx = Len(tasks) THEN "deliver" ELSE "merge"
  /\ UNCHANGED <<callVars, container, tasks, branchVars, handed, result>>

\* self._handler.add_data(data); return True
AddData ==
  /\ opc = "deliver"
  /\ handed' = Append(handed, data)
  /\ container' = HandlerAddData(container, data)
  /\ opc' = "returned"
  /\ result' = "True"
  /\ UNCHANGED <<callVars, tasks, branchVars, data, mergeIdx>>

Next ==
  \/ Call
  \/ \E i \in Branches : GetDataBegin(i)
  \/ \E i \in Branches : ReceivePage(i)
  \/ \E i \in Branches : ReceiveWhole(i)
  \/ \E i \in Branches : ReceiveError(i)
  \/ Abort
  \/ JoinOk
  \/ JoinRaise
  \/ MergeStep
  \/ AddData

Spec == Init /\ [][Next]_vars

\* paginated queries against the row-serving server, which answers every
\* request with a JSON body: the steps left are those that can happen then
InitRows ==
  /\ Init
  /\ srv.mode = "rows"
  /\ ~IsUnlimited([limit |-> EffectiveLimit(op, limitArg)])

NextRows ==
  \/ Call
  \/ \E i \in Branches : GetDataBegin(i)
  \/ \E i \in Branches : ReceivePage(i)
  \/ JoinOk
  \/ MergeStep
  \/ AddData

\* the event loop runs every task that can run and the server answers every
\* request
FetchSpec == InitRows /\ [][NextRows]_vars /\ WF_vars(NextRows)

\* the operation when the TaskGroup block is left normally, its branches
\* having returned the Datasets of sources to an unlimited query
BranchesReturned(o, sources) ==
  LET n == Len(sources)
      sent == [limit |-> "unlimited", start |-> NoStart, only |-> IssOnly(o)]
  IN
  /\ op = o
  /\ ids = SubSeq(IF o = "bonds" THEN BoardgroupPool ELSE SecidPool, 1, n)
  /\ limitArg = "unlimited"
  /\ srv = [mode |-> "any", N |-> 0, P |-> 1, block |-> NoBlock]
  /\ opc = "merge"
  /\ tasks = ids
  /\ bpc = [i \in 1..n |-> "done"]
  /\ start = [i \in 1..n |-> 0]
  /\ count = [i \in 1..n |-> 0]
  /\ bdata = sources
  /\ bparams = [i \in 1..n |-> sent]
  /\ reqlog = [i \in 1..n |-> <<sent>>]
  /\ pages = [i \in 1..n |-> <<sources[i]>>]
  /\ berr = [i \in 1..n |-> "none"]
  /\ net = {}
  /\ data = EmptyDataset
  /\ mergeIdx = 1
  /\ handed = <<>>
  /\ firstDone = 1
  /\ result = "pending"
  /\ container = EmptyDataset
  /\ hgroup = NoGroup

SeqsUpTo(S, n) == UNION {[1..k -> S] : k \in 0..n}

\* the Datasets the three branches of the merge return: a history block of
\* up to MaxRows rows, a securities block of one row, either, both or none
MergeRecords == {[SECID |-> "A", NUMTRADES |-> n] : n \in 1..2}

MergeSources ==
  {[b \in S |-> IF b = "history" THEN h ELSE <<[SECID |-> "A", NUMTRADES |-> 1]>>] :
     S \in SUBSET {"securities", "history"}, h \in SeqsUpTo(MergeRecords, MaxRows)}

\* the merge loop of an operation over three branches
InitMerge == \E sources \in [1..3 -> MergeSources] : BranchesReturned("sec_history", sources)

NextMerge ==
  \/ MergeStep
  \/ AddData

MergeSpec == InitMerge /\ [][NextMerge]_vars

\* the well-formed blocks given to the normaliser: every row has as many
\* values as the block has columns
ColumnPool == {"secid", "numtrades", "SECID"}
CellPool == {1, 2}

WellFormedBlocks ==
  UNION {{[columns |-> c, data |-> d] :
            d \in SeqsUpTo([1..Len(c) -> CellPool], MaxBlockRows)} :
         c \in SeqsUpTo(ColumnPool, MaxCols)}

\* an unlimited query of one security against a server that answers with one
\* block: the response is validated and normalised
InitNorm ==
  /\ op = "sec_history"
  /\ ids = <<"A">>
  /\ limitArg = "unlimited"
  /\ srv \in {[mode |-> "block", N |-> 0, P |-> 1, block |-> B] : B \in WellFormedBlocks}
  /\ opc = "call"
  /\ tasks = <<>>
  /\ bpc = <<>>
  /\ start = <<>>
  /\ count = <<>>
  /\ bdata = <<>>
  /\ bparams = <<>>
  /\ reqlog = <<>>
  /\ pages = <<>>
  /\ berr = <<>>
  /\ net = {}
  /\ data = EmptyDataset
  /\ mergeIdx = 1
  /\ handed = <<>>
  /\ firstDone = 0
  /\ result = "pending"
  /\ container = EmptyDataset
  /\ hgroup = NoGroup

NextNorm ==
  \/ Call
  \/ \E i \in Branches : GetDataBegin(i)
  \/ \E i \in Branches : ReceiveWhole(i)

NormSpec == InitNorm /\ [][NextNorm]_vars

\* the rows handed to the handler's filter: securities that pass or fail the
\* price criterion, marketdata with a DURATION that is missing, zero, within
\* or above duration_max, history days below or above trades_min
SecuritiesRows ==
  {[SECID |-> s, FACEUNIT |-> "SUR", PREVLEGALCLOSEPRICE |-> 99] : s \in {"A", "B"}}
  \cup {[SECID |-> "B", FACEUNIT |-> "SUR", PREVLEGALCLOSEPRICE |-> 105]}

MarketdataRows ==
  {[SECID |-> s] : s \in {"A", "B"}}
  \cup {[SECID |-> s, DURATION |-> d] : s \in {"A", "B"}, d \in {0, 100, 400}}

HistoryRows == {[SECID |-> s, NUMTRADES |-> n] : s \in {"A", "B"}, n \in {100, 500}}

FilterInputs ==
  {[b \in {"securities", "marketdata", "history"} |->
      CASE b = "securities" -> s [] b = "marketdata" -> m [] OTHER -> h] :
     s \in SeqsUpTo(SecuritiesRows, MaxSec),
     m \in SeqsUpTo(MarketdataRows, MaxMd),
     h \in SeqsUpTo(HistoryRows, MaxHist)}

\* the delivery of one fetched Dataset to the handler, which filters it
InitFilter == \E d \in FilterInputs : BranchesReturned("bonds", <<d>>)

NextFilter ==
  \/ MergeStep
  \/ AddData

FilterSpec == InitFilter /\ [][NextFilter]_vars

\* the Dataset a history operation has fetched and merged when its TaskGroup
\* block is left: no block, or a history block of up to MaxHist rows
HistoryDeliveries ==
  {[b \in S |-> h] : S \in SUBSET {"history"}, h \in SeqsUpTo(HistoryRows, MaxHist)}

\* the container after get_available_bonds has delivered: main goes on to the
\* history operations when it holds securities rows
ContainersAfterBonds ==
  {c \in {HandlerAddData(EmptyDataset,
            [b \in {"securities", "marketdata"} |-> IF b = "securities" THEN rows ELSE <<>>]) :
          rows \in SeqsUpTo(SecuritiesRows, MaxSec)} :
     "securities" \in DOMAIN c /\ c["securities"] # <<>>}

\* main: the TaskGroup with one get_securities_history task per board
InitHistory ==
  /\ hgroup \in [before : ContainersAfterBonds,
                 pc : {[o \in DOMAIN Boards |-> "created"]},
                 data : [DOMAIN Boards -> HistoryDeliveries]]
  /\ container = hgroup.before
  /\ op = "sec_history"
  /\ ids = <<>>
  /\ limitArg = NoLimit
  /\ srv = [mode |-> "any", N |-> 0, P |-> 1, block |-> NoBlock]
  /\ opc = "call"
  /\ tasks = <<>>
  /\ bpc = <<>>
  /\ start = <<>>
  /\ count = <<>>
  /\ bdata = <<>>
  /\ bparams = <<>>
  /\ reqlog = <<>>
  /\ pages = <<>>
  /\ berr = <<>>
  /\ net = {}
  /\ data = EmptyDataset
  /\ mergeIdx = 1
  /\ handed = <<>>
  /\ firstDone = 0
  /\ result = "pending"

\* the task of a history operation runs to the await of its own TaskGroup
HistoryStart(o) ==
  /\ hgroup.pc[o] = "created"
  /\ hgroup' = [hgroup EXCEPT !.pc[o] = "group"]
  /\ UNCHANGED <<op, ids, limitArg, srv, opc, tasks, branchVars, data, mergeIdx,
                 handed, result, container>>

\* the same step with the container as it was read before the other
\* operations delivered
HistoryReturnStale(o) ==
  /\ hgroup.pc[o] = "group"
  /\ handed' = Append(handed, hgroup.data[o])
  /\ container' = HandlerAddData(hgroup.before, hgroup.data[o])
  /\ hgroup' = [hgroup EXCEPT !.pc[o] = "returned"]
  /\ UNCHANGED <<op, ids, limitArg, srv, opc, tasks, branchVars, data, mergeIdx, result>>

\* the operation's TaskGroup block is left; the merge loop,
\* self._handler.add_data(data) and return True follow without an await
HistoryReturn(o) ==
  /\ hgroup.pc[o] = "group"
  /\ handed' = Append(handed, hgroup.data[o])
  /\ container' = HandlerAddData(container, hgroup.data[o])
  /\ hgroup' = [hgroup EXCEPT !.pc[o] = "returned"]
  /\ UNCHANGED <<op, ids, limitArg, srv, opc, tasks, branchVars, data, mergeIdx, result>>

NextHistory ==
  \/ \E o \in DOMAIN hgroup.pc : HistoryStart(o)
  \/ \E o \in DOMAIN hgroup.pc : HistoryReturn(o)

HistorySpec == InitHistory /\ [][NextHistory]_vars

\* ------------------------------------------------------------ properties

\* the limit the branches of the operation run with
QueryLimit == EffectiveLimit(op, limitArg)

\* records of block b in the first k pages branch i received
RECURSIVE SumPages(_, _, _)
SumPages(i, b, k) ==
  IF k = 0 THEN 0 ELSE SumPages(i, b, k - 1) + Len(Get(pages[i][k], b))

\* the records of rows 1..n of the table served for ident
RowRecords(ident, n) == [k \in 1..n |-> [SECID |-> ident, NUMTRADES |-> k]]

\* every block of a page has no record (a page without blocks included)
PageEmpty(page) == \A b \in DOMAIN page : Len(page[b]) = 0

\* block b of the first n branches' Datasets, one after the other
RECURSIVE ConcatBranches(_, _)
ConcatBranches(b, n) ==
  IF n = 0 THEN <<>> ELSE ConcatBranches(b, n - 1) \o Get(bdata[n], b)

AllReturned == opc # "call" /\ \A i \in Branches : bpc[i] = "done"

C1_Exact ==
  \A i \in Branches :
    (srv.mode = "rows" /\ QueryLimit # "unlimited" /\ bpc[i] = "done") =>
      /\ DOMAIN bdata[i] = {"history"}
      /\ bdata[i]["history"] = RowRecords(tasks[i], srv.N)
      /\ Len(bdata[i]["history"]) = SumPages(i, "history", Len(pages[i]))

\* C1: against a server that holds N rows and answers start with the rows from
\* start onward, at most P a page, a paginated single-block _get_data
\* terminates and its block is exactly rows 1..N in order, each once, its
\* length the sum of the per-page counts.
C1_PaginatedFetchExact ==
  (srv.mode = "rows" /\ QueryLimit # "unlimited") => (<>AllReturned /\ []C1_Exact)

C1_Witness ==
  /\ srv.mode = "rows" /\ QueryLimit # "unlimited"
  /\ srv.N = 3 /\ srv.P = 2
  /\ \E i \in Branches :
       /\ bpc[i] = "done"
       /\ Len(pages[i]) = 3
       /\ Len(bdata[i]["history"]) = 3

\* C2: in paginated mode no request follows the first page in which every
\* block yields zero records, a page without any block included.
C2_NoRequestAfterEmptyPage ==
  \A i \in Branches :
    QueryLimit # "unlimited" =>
      \A k \in DOMAIN pages[i] : PageEmpty(pages[i][k]) => Len(reqlog[i]) <= k

\* C3: in a paginated single-block query the start parameter is "0" on the
\* first request and on every later request the number of records accumulated
\* so far for that block, whatever the server answered.
C3_StartIsAccumulated ==
  \A i \in Branches : \A b \in Range(BlockFields) :
    (/\ QueryLimit # "unlimited"
     /\ \A k \in DOMAIN pages[i] : DOMAIN pages[i][k] \subseteq {b}) =>
      /\ (reqlog[i] # <<>> => reqlog[i][1].start = Str(0))
      /\ (bpc[i] = "await" =>
            reqlog[i][Len(reqlog[i])].start = Str(Len(Get(bdata[i], b))))

\* C4: with limit == "unlimited" _get_data issues exactly one request, never
\* sets start, and returns right after normalising that one response.
C4_UnlimitedOneRequest ==
  QueryLimit = "unlimited" =>
    \A i \in Branches :
      /\ Len(reqlog[i]) <= 1
      /\ (bpc[i] \in {"await", "done", "failed"} => Len(reqlog[i]) = 1)
      /\ \A k \in DOMAIN reqlog[i] : reqlog[i][k].start = NoStart
      /\ bparams[i].start = NoStart
      /\ bpc[i] # "loop"
      /\ (pages[i] # <<>> =>
            /\ Len(pages[i]) = 1
            /\ bpc[i] = "done"
            /\ bdata[i] = pages[i][1])

C4_Witness ==
  /\ QueryLimit = "unlimited"
  /\ \E i, j \in Branches :
       /\ bpc[i] = "done" /\ pages[i] = <<EmptyDataset>> /\ Len(reqlog[i]) = 1
       /\ bpc[j] = "done" /\ "history" \in DOMAIN bdata[j] /\ Len(bdata[j]["history"]) > 0

\* C5: each block of the merged Dataset is the concatenation of the branches'
\* sequences for that block in request order, whatever the order in which the
\* branches completed.
C5_MergeInRequestOrder ==
  /\ opc \in {"merge", "deliver", "returned"} /\ tasks # <<>> =>
       /\ DOMAIN data = UNION {DOMAIN bdata[i] : i \in 1..(mergeIdx - 1)}
       /\ \A b \in DOMAIN data : data[b] = ConcatBranches(b, mergeIdx - 1)
  /\ \A k \in DOMAIN handed : tasks # <<>> =>
       /\ DOMAIN handed[k] = UNION {DOMAIN bdata[i] : i \in Branches}
       /\ \A b \in DOMAIN handed[k] : handed[k][b] = ConcatBranches(b, Len(tasks))

C5_Witness ==
  /\ opc = "returned"
  /\ Len(tasks) = 2
  /\ firstDone = 2
  /\ Len(Get(bdata[1], "history")) > 0
  /\ Len(Get(bdata[2], "history")) > 0
  /\ Len(handed) = 1

\* C6: a branch whose fetch fails contributes an empty Dataset; its siblings
\* run to completion and the operation merges their records: no branch is
\* cancelled and no error leaves the operation.
C6_FailedBranchIsolated ==
  \A i \in Branches :
    berr[i] # "none" =>
      /\ bpc[i] = "done" /\ bdata[i] = EmptyDataset
      /\ \A j \in Branches : bpc[j] # "cancelled"
      /\ opc # "raised"

\* C7: for a response of the wrong content type and for one whose body cannot
\* be decoded, _send_request returns an empty block set: neither error reaches
\* the fetcher.
C7_MalformedIsEmptyBlockSet ==
  \A i \in Branches : berr[i] \notin {"ContentTypeError", "JSONDecodeError"}

\* C8 as stated: every fan-out operation called with no identifier issues no
\* request and produces an empty Dataset.
C8_EmptyIdsNoRequest ==
  ids = <<>> =>
    /\ net = {}
    /\ \A i \in Branches : reqlog[i] = <<>>
    /\ \A k \in DOMAIN handed : handed[k] = EmptyDataset

\* C8, amended: get_securities_history and get_bonds_bondization called with no
\* security id issue no request and hand an empty Dataset to the handler;
\* get_available_bonds called with no board group fans out over board group 58.
C8_EmptySecidsNoRequest ==
  /\ (ids = <<>> /\ op # "bonds") =>
       /\ tasks = <<>>
       /\ net = {}
       /\ opc \in {"call", "deliver", "returned"}
       /\ (opc = "returned" => handed = <<EmptyDataset>>)
  /\ (ids = <<>> /\ op = "bonds" /\ opc # "call") =>
       /\ tasks = <<"58">>
       /\ \A r \in net : r.url = Url("bonds", "58")

C8_Witness ==
  /\ ids = <<>>
  /\ op = "sec_history"
  /\ opc = "returned"
  /\ handed = <<EmptyDataset>>

\* what the responses branch i received make of its Dataset
RECURSIVE OwnData(_, _)
OwnData(i, k) ==
  IF k = 0 THEN EmptyDataset
  ELSE LET before == OwnData(i, k - 1)
           page == pages[i][k]
       IN [b \in (DOMAIN before) \cup (DOMAIN page) |->
             IF b \notin DOMAIN page THEN before[b]
             ELSE IF QueryLimit = "unlimited" THEN page[b]
             ELSE Get(before, b) \o page[b]]

\* C9: no merge step and no handler.add_data happens while a branch is still
\* running; the merge starts when every branch has completed and the merged
\* Dataset is handed over once; a branch's Dataset holds what that branch
\* received and nothing else, before the join and after it.
C9_MergeAfterAllBranches ==
  /\ (opc \in {"merge", "deliver", "returned"} \/ mergeIdx > 1 \/ handed # <<>>) =>
       \A i \in Branches : bpc[i] = "done"
  /\ Len(handed) <= 1
  /\ (opc = "returned" <=> Len(handed) = 1)
  /\ \A i \in Branches : bdata[i] = OwnData(i, Len(pages[i]))

C9_Witness ==
  /\ opc = "returned"
  /\ Len(tasks) = 2
  /\ Len(handed) = 1
  /\ \A i \in Branches : bpc[i] = "done" /\ Len(pages[i]) >= 1

\* C10: at most one request of a query is outstanding at any time, and the
\* request for page k+1 is issued only after the response to page k has been
\* received and counted.
C10_SequentialPagination ==
  \A i \in Branches :
    /\ Cardinality({r \in net : r.task = i}) <= 1
    /\ Len(reqlog[i]) <= Len(pages[i]) + 1
    /\ \A r \in net : r.task = i => bpc[i] = "await" /\ r.seq = Len(pages[i]) + 1

C10_Witness ==
  \E i \in Branches :
    /\ QueryLimit # "unlimited"
    /\ bpc[i] = "await"
    /\ Len(pages[i]) >= 1
    /\ Len(reqlog[i]) = Len(pages[i]) + 1
    /\ \E r \in net : r.task = i /\ r.seq = 2

\* C11: merging a source into a target leaves, for every block name of
\* either, the target's rows followed by the source's, no row dropped as a
\* duplicate; the source is as it was; and merging A, then B, then C into an
\* empty target gives what merging into A the merge of C into B gives.
C11_MergeConcatenates ==
  (Len(tasks) = 3 /\ opc \in {"merge", "deliver", "returned"}) =>
    /\ \A i \in Branches : bdata[i] = pages[i][1]
    /\ DOMAIN data = UNION {DOMAIN bdata[i] : i \in 1..(mergeIdx - 1)}
    /\ \A b \in DOMAIN data :
         /\ data[b] = ConcatBranches(b, mergeIdx - 1)
         /\ mergeIdx > 1 =>
              data[b] = ConcatBranches(b, mergeIdx - 2) \o Get(bdata[mergeIdx - 1], b)
    /\ mergeIdx = 4 => data = MergeData(bdata[1], MergeData(bdata[2], bdata[3]))

C11_Witness ==
  /\ opc = "deliver"
  /\ Len(tasks) = 3
  /\ "history" \in (DOMAIN bdata[1]) \cap (DOMAIN bdata[2])
  /\ "history" \notin DOMAIN bdata[3]
  /\ bdata[1]["history"] = bdata[2]["history"]
  /\ Len(bdata[1]["history"]) = 1
  /\ Len(data["history"]) = 2
  /\ "securities" \in (DOMAIN bdata[3]) \ (DOMAIN bdata[1])

\* the Records normalised from block B are one per row of B in row order,
\* their keys the upper-cased column names, each value the one at the
\* position of its column (the last of the columns with that name)
Normalised(B, out) ==
  /\ Len(out) = Len(B.data)
  /\ \A k \in DOMAIN out :
       /\ DOMAIN out[k] = {Upper(B.columns[m]) : m \in DOMAIN B.columns}
       /\ \A m \in DOMAIN B.columns :
            (\A n \in DOMAIN B.columns :
               Upper(B.columns[n]) = Upper(B.columns[m]) => n <= m)
            => out[k][Upper(B.columns[m])] = B.data[k][m]

\* C12 as stated: every well-formed block normalises to one Record per row,
\* in row order, keyed by the upper-cased column names with the values of the
\* same positions.
C12_OneRecordPerRow ==
  \A i \in Branches :
    (srv.mode = "block" /\ bpc[i] = "done") =>
      Normalised(srv.block, bdata[i]["history"])

\* C12: every well-formed block with at least one column normalises to one
\* Record per row, in row order, keyed by the upper-cased column names with
\* the values of the same positions; a block without columns normalises to
\* the empty sequence whatever its rows.
C12_OneRecordPerRowOfColumns ==
  \A i \in Branches :
    (srv.mode = "block" /\ bpc[i] = "done") =>
      IF Len(srv.block.columns) > 0
      THEN Normalised(srv.block, bdata[i]["history"])
      ELSE bdata[i]["history"] = <<>>

C12_Witness ==
  /\ srv.mode = "block"
  /\ srv.block = [columns |-> <<"secid", "numtrades">>, data |-> <<<<2, 1>>, <<1, 1>>>>]
  /\ \E i \in Branches :
       /\ bpc[i] = "done"
       /\ bdata[i]["history"] = <<[SECID |-> 2, NUMTRADES |-> 1], [SECID |-> 1, NUMTRADES |-> 1]>>

\* C13: each of the three operations gives its caller True when it succeeded
\* and False otherwise: an operation that ended has returned one of the two,
\* False when a branch failed.
C13_ReturnsTrueOrFalse ==
  /\ result \in {"pending", "True", "False"}
  /\ (opc = "returned" /\ \A i \in Branches : berr[i] = "none") => result = "True"
  /\ (\E i \in Branches : berr[i] # "none") /\ opc \in {"raised", "returned"}
       => result = "False"

\* C14: every request carries the caller's parameters other than limit and
\* start as the caller passed them, and from one page of a branch to the next
\* nothing but start changes.
C14_PassthroughUnchanged ==
  \A i \in Branches :
    /\ \A k \in DOMAIN reqlog[i] :
         /\ reqlog[i][k].only = IssOnly(op)
         /\ k > 1 => reqlog[i][k] = [reqlog[i][k - 1] EXCEPT !.start = reqlog[i][k].start]
    /\ \A r \in net :
         r.task = i =>
           /\ r.params.only = IssOnly(op)
           /\ r.params = reqlog[i][r.seq]

C14_Witness ==
  \E i \in Branches : \E r \in net :
    /\ r.task = i
    /\ r.seq = 2
    /\ r.params = [limit |-> NoLimit, start |-> "2", only |-> "history"]
    /\ reqlog[i][1] = [limit |-> NoLimit, start |-> "0", only |-> "history"]

\* C15: in paginated mode, after a page with at least one block, the count
\* that moves the cursor and decides whether another request follows is the
\* number of records of the last block processed for that page; the counts of
\* its other blocks change neither.
C15_LastBlockCountDrives ==
  \A i \in Branches :
    QueryLimit # "unlimited" =>
      \A k \in DOMAIN pages[i] :
        DOMAIN pages[i][k] # {} =>
          LET c == Len(pages[i][k][LastBlock(pages[i][k])]) IN
          /\ c > 0 =>
               /\ Len(reqlog[i]) > k
               /\ reqlog[i][k + 1].start = Str(ParseNat(reqlog[i][k].start) + c)
          /\ c = 0 => Len(reqlog[i]) = k /\ bpc[i] = "done"

C15_Witness ==
  \E i \in Branches :
    /\ QueryLimit # "unlimited"
    /\ bpc[i] = "done"
    /\ Len(reqlog[i]) = 1
    /\ DOMAIN pages[i][1] = {"securities", "history"}
    /\ Len(pages[i][1]["securities"]) = 1
    /\ Len(pages[i][1]["history"]) = 0

\* the records of block b in the first k pages branch i received, in page order
RECURSIVE ConcatPages(_, _, _)
ConcatPages(i, b, k) ==
  IF k = 0 THEN <<>> ELSE ConcatPages(i, b, k - 1) \o Get(pages[i][k], b)

\* C16: in paginated mode, whatever the server answered, each block of the
\* branch's Dataset is the concatenation, in page order, of the records
\* normalised from that block in each page; the blocks are those some page
\* had, and the records of earlier pages stay in front, in their order.
C16_PagesConcatenated ==
  \A i \in Branches :
    QueryLimit # "unlimited" =>
      /\ DOMAIN bdata[i] = UNION {DOMAIN pages[i][k] : k \in DOMAIN pages[i]}
      /\ \A b \in DOMAIN bdata[i] :
           /\ bdata[i][b] = ConcatPages(i, b, Len(pages[i]))
           /\ \A k \in DOMAIN pages[i] :
                SubSeq(bdata[i][b], 1, Len(ConcatPages(i, b, k))) = ConcatPages(i, b, k)

C16_Witness ==
  \E i \in Branches :
    /\ QueryLimit # "unlimited"
    /\ srv.mode = "any"
    /\ Len(pages[i]) = 2
    /\ DOMAIN pages[i][1] = {"securities", "history"}
    /\ DOMAIN pages[i][2] = {"history"}
    /\ Len(pages[i][1]["history"]) = 1
    /\ Len(pages[i][2]["history"]) = 1
    /\ bdata[i]["history"] = pages[i][1]["history"] \o pages[i][2]["history"]
    /\ pages[i][1]["history"] # pages[i][2]["history"]

\* C17: the first request of a branch waits for no other branch: a branch
\* that has been created can issue it whatever the other branches are doing,
\* and requests in flight belong to distinct branches that are all awaiting.
C17_BranchesStartIndependently ==
  \A i \in Branches :
    /\ (opc = "group" /\ bpc[i] = "created") => ENABLED GetDataBegin(i)
    /\ (\E r \in net : r.task = i) => bpc[i] = "await"

C17_Witness ==
  /\ Len(tasks) = MaxIds
  /\ \A i \in Branches :
       /\ bpc[i] = "await"
       /\ pages[i] = <<>>
       /\ \E r \in net : r.task = i /\ r.seq = 1
  /\ Cardinality(net) = MaxIds

\* C18: when a branch raised, the operation hands nothing to the handler:
\* no merge is made, add_data is not called with what the other branches
\* fetched, and the handler's container is as it was before the operation.
C18_NothingDeliveredOnFailure ==
  (\E i \in Branches : berr[i] # "none") =>
    /\ handed = <<>>
    /\ container = EmptyDataset
    /\ data = EmptyDataset
    /\ opc \in {"group", "raised"}

C18_Witness ==
  /\ opc = "raised"
  /\ handed = <<>>
  /\ container = EmptyDataset
  /\ \E i, j \in Branches :
       /\ bpc[i] = "done"
       /\ "history" \in DOMAIN bdata[i]
       /\ Len(bdata[i]["history"]) > 0
       /\ bpc[j] = "failed"

\* start and count of branch i after its first k pages, from those pages alone
RECURSIVE OwnCursor(_, _)
OwnCursor(i, k) ==
  IF k = 0 THEN [start |-> 0, count |-> 1]
  ELSE LET before == OwnCursor(i, k - 1)
           page == pages[i][k]
           c == IF DOMAIN page = {} THEN before.count ELSE Len(page[LastBlock(page)])
       IN [start |-> before.start + c, count |-> c]

\* C19: concurrent branches share no pagination state: the cursor, the count
\* and the start parameter of a branch are those its own pages give, and the
\* start it sent with each request depends on the pages it had received
\* itself, however the branches interleave.
C19_OwnPaginationState ==
  \A i \in Branches :
    (QueryLimit # "unlimited" /\ reqlog[i] # <<>>) =>
      /\ start[i] = OwnCursor(i, Len(pages[i])).start
      /\ count[i] = OwnCursor(i, Len(pages[i])).count
      /\ \A k \in DOMAIN reqlog[i] : reqlog[i][k].start = Str(OwnCursor(i, k - 1).start)
      /\ \A r \in net : r.task = i => r.params.start = Str(start[i])

C19_Witness ==
  /\ QueryLimit # "unlimited"
  /\ Len(tasks) = 2
  /\ bpc[1] = "await" /\ Len(reqlog[1]) = 2 /\ start[1] > 0
  /\ bpc[2] = "await" /\ Len(reqlog[2]) = 1 /\ start[2] = 0
  /\ \E r \in net : r.task = 1 /\ r.params.start = Str(start[1])
  /\ \E r \in net : r.task = 2 /\ r.params.start = "0"

\* the SECID has, in Dataset d, a marketdata row whose DURATION is missing,
\* zero or above duration_max, or a history day with fewer trades than trades_min
Offending(secid, d) ==
  \/ \E k \in DOMAIN d["marketdata"] :
       LET m == d["marketdata"][k] IN
       /\ m["SECID"] = secid
       /\ ("DURATION" \notin DOMAIN m \/ m["DURATION"] = 0 \/ m["DURATION"] > DurationMax)
  \/ \E k \in DOMAIN d["history"] :
       /\ d["history"][k]["SECID"] = secid
       /\ d["history"][k]["NUMTRADES"] < TradesMin

\* C20: after the filter has run on data with a non-empty securities block,
\* no securities row is left whose SECID has an offending marketdata row or
\* history day, at whatever position the row was.
C20_NoOffendingRowLeft ==
  (/\ opc = "returned"
   /\ Len(handed) = 1
   /\ DOMAIN handed[1] = {"securities", "marketdata", "history"}
   /\ handed[1]["securities"] # <<>>) =>
    /\ "securities" \in DOMAIN container
    /\ \A k \in DOMAIN container["securities"] :
         ~Offending(container["securities"][k]["SECID"], handed[1])

\* the container after the first k add_data calls, each run to its end on
\* what the call before left
RECURSIVE AfterCalls(_)
AfterCalls(k) ==
  IF k = 0 THEN hgroup.before ELSE HandlerAddData(AfterCalls(k - 1), handed[k])

\* the container after the first k operations delivered in the order of their boards
RECURSIVE AfterBoards(_)
AfterBoards(k) ==
  IF k = 0 THEN hgroup.before ELSE HandlerAddData(AfterBoards(k - 1), hgroup.data[k])

\* C21: when the history operations of the boards run concurrently and
\* deliver into one container, every add_data call runs to its end on what
\* the call before it left, one call per operation that returned, and when
\* all have returned the container is what delivering in board order gives,
\* in whatever order they completed.
C21_DeliveryOrderIrrelevant ==
  hgroup.pc # <<>> =>
    /\ Len(handed) = Cardinality({o \in DOMAIN hgroup.pc : hgroup.pc[o] = "returned"})
    /\ container = AfterCalls(Len(handed))
    /\ (\A o \in DOMAIN hgroup.pc : hgroup.pc[o] = "returned") =>
         container = AfterBoards(Len(hgroup.pc))

C21_Witness ==
  /\ hgroup.pc = [o \in DOMAIN Boards |-> "returned"]
  /\ Len(hgroup.before["securities"]) = 2
  /\ Len(container["securities"]) = 1
  /\ handed = <<hgroup.data[2], hgroup.data[1]>>
  /\ "history" \in DOMAIN hgroup.data[1] /\ hgroup.data[1]["history"] # <<>>
  /\ "history" \in DOMAIN hgroup.data[2] /\ hgroup.data[2]["history"] # <<>>
  /\ hgroup.data[1] # hgroup.data[2]
  /\ HandlerAddData(hgroup.before, hgroup.data[2]) = hgroup.before

====
